---- MODULE Spec2Model ----
(***************************************************************************)
(* Model of scripts/scanResults.js: the pass that replays the vote and     *)
(* withdraw transactions of a block range, keeps the net votes of every    *)
(* voter on every proposal, and writes the distribution of voters by net   *)
(* votes as a CSV.                                                         *)
(*                                                                         *)
(* JavaScript objects whose keys are not array indices iterate in          *)
(* insertion order; they are modelled as sequences of <<key, value>>       *)
(* pairs.  The transactions of the input are consumed one at a time by     *)
(* forEach; txs is the part of the input consumed so far.                  *)
(***************************************************************************)
EXTENDS Integers, Sequences, FiniteSets, TLC

\* ------------------------------------------------------------------ bounds
MaxTxs == 2        \* longest input replayed
MaxVotes == 2      \* largest number of whole votes in one call

\* --------------------------------------------------------------- constants
\* Amounts are counted in units of 10^17, in which 10^18 is 10 (TLC integers
\* are 32 bits wide).
factor18 == 10
SpendieType == 13
TransferType == 3
BoxColor == 4

voteFuncSig == "castBallot"
withdrawFuncSig == "withdraw"
otherFuncSig == "other"

\* ------------------------------------------------------------- JS objects
Has(obj, k) == \E i \in 1..Len(obj) : obj[i][1] = k

IndexOfKey(obj, k) == CHOOSE i \in 1..Len(obj) : obj[i][1] = k

\* obj[k] || dflt, for values that are objects or numbers with dflt = 0
Get(obj, k, dflt) == IF Has(obj, k) THEN obj[IndexOfKey(obj, k)][2] ELSE dflt

\* obj[k] = v : an existing key keeps its place, a new one goes last
Put(obj, k, v) ==
  IF Has(obj, k)
    THEN [obj EXCEPT ![IndexOfKey(obj, k)] = <<k, v>>]
    ELSE Append(obj, <<k, v>>)

Keys(obj) == {obj[i][1] : i \in 1..Len(obj)}

\* ------------------------------------------------------------ the registry
ProposalA == [proposalId |-> "AB", yesBoxAddress |-> "0xyesA", noBoxAddress |-> "0xnoA"]
ProposalB == [proposalId |-> "B", yesBoxAddress |-> "0xyesB", noBoxAddress |-> "0xnoB"]

\* contents of build/proposals.json: a list of proposals
Registries == {<<ProposalB>>, <<ProposalB, ProposalA>>}

\* UTF-16 code units of the proposal ids, which Array.prototype.sort compares
CodeUnits == [AB |-> <<65, 66>>, B |-> <<66>>]

\* ------------------------------------------------------------ transactions
Voters == {"0xv1", "0xv2"}
NoInput == "missing"          \* the transaction has no inputs[1]
BoxAddresses == {"0xyesA", "0xnoA", "0xyesB", "0xelse"}
NoScript == "none"

\* ripemd160 of the unlocking script, hex encoded
ripemd160Hex(script) ==
  CASE script = "scriptYesA" -> "0xyesA"
    [] script = "scriptNoA" -> "0xnoA"
    [] script = "scriptYesB" -> "0xyesB"
    [] script = "scriptElse" -> "0xelse"
    [] OTHER -> "0x0"
Scripts == {"scriptYesA", "scriptNoA", "scriptYesB", "scriptElse"}

\* params[3] of the call: whole votes times 10^18, plus dust
RawAmounts == {m * factor18 + (m - 1) : m \in 1..MaxVotes}
BadParams == <<>>             \* payload that does not decode
Params(raw) == <<0, 0, 0, raw>>

VoteTx(voter, box, raw) ==
  [type |-> SpendieType, msgSig |-> voteFuncSig, msgParams |-> Params(raw),
   script |-> NoScript, signer |-> voter,
   outputs |-> <<[address |-> voter, color |-> BoxColor],
                 [address |-> box, color |-> BoxColor]>>]

WithdrawTx(voter, script, raw) ==
  [type |-> SpendieType, msgSig |-> withdrawFuncSig, msgParams |-> Params(raw),
   script |-> script, signer |-> voter, outputs |-> <<>>]

RelevantTxs ==
  {VoteTx(v, b, r) : v \in Voters, b \in BoxAddresses, r \in RawAmounts}
  \cup {WithdrawTx(v, s, r) : v \in Voters, s \in Scripts, r \in RawAmounts}

\* same shape as a vote, but not a call of castBallot or withdraw
IrrelevantTxs ==
  {[VoteTx("0xv1", "0xyesB", factor18) EXCEPT !.type = TransferType],
   [VoteTx("0xv2", "0xyesB", factor18) EXCEPT !.msgSig = otherFuncSig]}

\* calls that the decoding steps cannot read
UndecodableTxs ==
  {[VoteTx("0xv1", "0xyesB", factor18) EXCEPT !.msgParams = BadParams],
   [WithdrawTx("0xv1", "scriptYesB", factor18) EXCEPT !.signer = NoInput],
   [VoteTx("0xv1", "0xyesB", factor18) EXCEPT
      !.outputs = <<[address |-> "0xv1", color |-> BoxColor]>>]}

Txs == RelevantTxs \cup IrrelevantTxs \cup UndecodableTxs

\* --------------------------------------------------------------- decoding
getFuncSig(tx) == tx.msgSig

isSpendie(tx) == tx.type = SpendieType

\* the type of the transaction is not looked at
isVote_AnyType(tx) == getFuncSig(tx) = voteFuncSig

isVote(tx) == isSpendie(tx) /\ getFuncSig(tx) = voteFuncSig

isWithdraw(tx) == isSpendie(tx) /\ getFuncSig(tx) = withdrawFuncSig

\* BN division truncates towards zero
TruncDiv(a, b) == IF a >= 0 THEN a \div b ELSE -((-a) \div b)

\* defaultAbiCoder.decode throws on a payload that does not fit the layout
DecodeThrows(tx) == Len(tx.msgParams) # 4

\* the branches of the conditional are exchanged
getVotes_Swapped(tx) ==
  LET votes == TruncDiv(tx.msgParams[4], factor18)
  IN IF isWithdraw(tx) THEN votes ELSE -votes

\* the withdrawn amount is not negated
getVotes_Unsigned(tx) == TruncDiv(tx.msgParams[4], factor18)

getVotes(tx) ==
  LET votes == TruncDiv(tx.msgParams[4], factor18)
  IN IF isWithdraw(tx) THEN -votes ELSE votes

\* outputs.find(o => o.address !== voter && o.color === 4)
BoxOutputs(tx, voter) ==
  {i \in 1..Len(tx.outputs) :
     tx.outputs[i].address # voter /\ tx.outputs[i].color = BoxColor}

\* reading .address of undefined throws
BoxAddressThrows(tx, voter) == ~isWithdraw(tx) /\ BoxOutputs(tx, voter) = {}

getBoxAddress(tx, voter) ==
  IF isWithdraw(tx)
    THEN ripemd160Hex(tx.script)
    ELSE LET S == BoxOutputs(tx, voter)
         IN tx.outputs[CHOOSE i \in S : \A j \in S : i <= j].address

MatchingProposals(proposals, boxAddress) ==
  {i \in 1..Len(proposals) :
     proposals[i].yesBoxAddress = boxAddress
     \/ proposals[i].noBoxAddress = boxAddress}

NoProposal == ""   \* undefined and the empty string are both falsy

\* the proposalId of the first match of proposals.find, or a falsy value
getProposalByBox(proposals, boxAddress) ==
  LET S == MatchingProposals(proposals, boxAddress)
  IN IF S = {} THEN NoProposal
     ELSE proposals[CHOOSE i \in S : \A j \in S : i <= j].proposalId

\* ------------------------------------------------------------ aggregation
VARIABLES
  proposals,   \* the registry read by getProposals
  txs,         \* the transactions forEach has consumed, in input order
  distr,       \* proposalId -> (voter -> net votes)
  voters,      \* the Set of signers of vote and withdraw calls
  warnings,    \* box addresses written by console.warn, in order
  pc,          \* "forEach", "done" (CSV written) or "aborted" (exception)
  csv          \* lines of build/distributionByVote.csv, <<>> before the write

vars == <<proposals, txs, distr, voters, warnings, pc, csv>>

\* the value of tx.inputs[1].signer, when inputs[1] exists
SignerThrows(tx) == tx.signer = NoInput

\* getBoxAddress followed by the lookup of lines 128-129
getProposalId(tx, props, voter) ==
  getProposalByBox(props, getBoxAddress(tx, voter))

\* the second inversion is left out
invertForNoBox_Never(prevVote, votes, tx) == votes

\* the inversion is applied to votes as well
invertForNoBox_AnyCall(prevVote, votes, tx) ==
  IF prevVote < 0 THEN -votes ELSE votes

\* a total of zero is taken for a negative one
invertForNoBox_AtZero(prevVote, votes, tx) ==
  IF prevVote <= 0 /\ isWithdraw(tx) THEN -votes ELSE votes

\* lines 163-165: the withdrawal of a negative total is inverted
invertForNoBox(prevVote, votes, tx) ==
  IF prevVote < 0 /\ isWithdraw(tx) THEN -votes ELSE votes

\* the votes of the call replace the total instead of adding to it
aggregateVotes_Overwrite(proposalVotes, voter, tx) ==
  LET prevVote == Get(proposalVotes, voter, 0)
  IN Put(proposalVotes, voter, invertForNoBox(prevVote, getVotes(tx), tx))

\* lines 159-168 for a transaction that decodes
aggregateVotes(proposalVotes, voter, tx) ==
  LET prevVote == Get(proposalVotes, voter, 0)
      votes == invertForNoBox(prevVote, getVotes(tx), tx)
  IN Put(proposalVotes, voter, Get(proposalVotes, voter, 0) + votes)

\* line 146
isBallotCall(tx) == isVote(tx) \/ isWithdraw(tx)

\* the set is replaced by the signer instead of gaining it
addVoter_Replace(vs, voter) == {voter}

\* the signer is not recorded
addVoter_Forgotten(vs, voter) == vs

\* line 148
addVoter(vs, voter) == vs \cup {voter}

\* the votes of the proposal are reset on every call
ensureProposal_Always(d, proposalId) == Put(d, proposalId, <<>>)

\* lines 154-156
ensureProposal(d, proposalId) ==
  IF Has(d, proposalId) THEN d ELSE Append(d, <<proposalId, <<>>>>)

\* The callback of txs.forEach applied to one transaction.  s holds distr,
\* voters and warnings; the result also says whether the callback threw.
forEachBody(s, tx, props) ==
  LET quiet == [distr |-> s.distr, voters |-> s.voters,
                warnings |-> s.warnings, threw |-> FALSE]
  IN
  IF ~isBallotCall(tx) THEN quiet
  ELSE IF SignerThrows(tx) THEN [quiet EXCEPT !.threw = TRUE]
  ELSE
    LET voter == tx.signer
        added == [quiet EXCEPT !.voters = addVoter(s.voters, voter)]
    IN
    IF BoxAddressThrows(tx, voter) THEN [added EXCEPT !.threw = TRUE]
    ELSE
      LET proposalId == getProposalId(tx, props, voter)
      IN
      IF proposalId = NoProposal
        THEN [added EXCEPT
                !.warnings = Append(s.warnings, getBoxAddress(tx, voter))]
        ELSE
          LET d == ensureProposal(s.distr, proposalId)
              opened == [added EXCEPT !.distr = d]
          IN
          IF DecodeThrows(tx) THEN [opened EXCEPT !.threw = TRUE]
          ELSE [opened EXCEPT
                  !.distr = Put(d, proposalId,
                                aggregateVotes(Get(d, proposalId, <<>>),
                                               voter, tx))]

\* ---------------------------------------------------------------- summary
RECURSIVE countByNumberOfVotes(_)
\* arr holds the <<voter, votes>> entries of one proposal
countByNumberOfVotes(arr) ==
  IF arr = <<>> THEN <<>>
  ELSE LET r == countByNumberOfVotes(SubSeq(arr, 1, Len(arr) - 1))
           v == arr[Len(arr)]
       IN Put(r, v[2], Get(r, v[2], 0) + 1)

RECURSIVE SumValues(_)
\* Object.values(obj).reduce((r, v) => r += v, 0)
SumValues(obj) ==
  IF obj = <<>> THEN 0 ELSE obj[1][2] + SumValues(Tail(obj))

\* the voters without an entry are left out of the zero bucket
countByVoteOf_NoRest(proposalVotes, votersSize) ==
  countByNumberOfVotes(proposalVotes)

\* lines 179-181: the count of each net vote, the rest of the voters at 0
countByVoteOf(proposalVotes, votersSize) ==
  LET countByVote == countByNumberOfVotes(proposalVotes)
      totalVotesForProposal == SumValues(countByVote)
  IN Put(countByVote, 0,
         Get(countByVote, 0, 0) + votersSize - totalVotesForProposal)

RECURSIVE InsertByVotes(_, _)
\* e goes after the entries that do not compare greater: (a, b) => a[0] - b[0]
InsertByVotes(sorted, e) ==
  IF sorted = <<>> THEN <<e>>
  ELSE IF sorted[Len(sorted)][1] - e[1] > 0
    THEN Append(InsertByVotes(SubSeq(sorted, 1, Len(sorted) - 1), e),
                sorted[Len(sorted)])
    ELSE Append(sorted, e)

\* the entries are left in the order of Object.entries
sortByVotes_Unsorted(entries) == entries

RECURSIVE sortByVotes(_)
sortByVotes(entries) ==
  IF entries = <<>> THEN <<>>
  ELSE InsertByVotes(sortByVotes(SubSeq(entries, 1, Len(entries) - 1)),
                     entries[Len(entries)])

RECURSIVE IndexEntries(_, _)
\* the entries of obj with keys in S, by ascending key
IndexEntries(obj, S) ==
  IF S = {} THEN <<>>
  ELSE LET k == CHOOSE x \in S : \A y \in S : x <= y
       IN <<<<k, Get(obj, k, 0)>>>> \o IndexEntries(obj, S \ {k})

\* Object.entries of an object with numeric keys: the array indices (the
\* non-negative integers) ascending, then the other keys as inserted
ObjectEntries(obj) ==
  IndexEntries(obj, {k \in Keys(obj) : k >= 0})
    \o SelectSeq(obj, LAMBDA e : e[1] < 0)

RECURSIVE LexLess(_, _)
\* comparison of two strings by UTF-16 code units
LexLess(a, b) ==
  IF b = <<>> THEN FALSE
  ELSE IF a = <<>> THEN TRUE
  ELSE IF a[1] # b[1] THEN a[1] < b[1]
  ELSE LexLess(Tail(a), Tail(b))

\* the order of Array.prototype.sort without a comparator
IdLess(p, q) == LexLess(CodeUnits[p], CodeUnits[q])

RECURSIVE InsertId(_, _)
InsertId(sorted, p) ==
  IF sorted = <<>> THEN <<p>>
  ELSE IF IdLess(p, sorted[Len(sorted)])
    THEN Append(InsertId(SubSeq(sorted, 1, Len(sorted) - 1), p),
                sorted[Len(sorted)])
    ELSE Append(sorted, p)

\* the ids are left in the order of Object.keys
sortIds_Unsorted(ids) == ids

RECURSIVE sortIds(_)
sortIds(ids) ==
  IF ids = <<>> THEN <<>>
  ELSE InsertId(sortIds(SubSeq(ids, 1, Len(ids) - 1)), ids[Len(ids)])

\* the ids of the registry instead of the keys of distr
sortedProposalIds_Registry(d) ==
  sortIds([i \in 1..Len(proposals) |-> proposals[i].proposalId])

\* Object.keys(distr).sort()
sortedProposalIds(d) == sortIds([i \in 1..Len(d) |-> d[i][1]])

\* one group for every proposal of the registry
groupedDistr_Registry(d, vs) ==
  [i \in 1..Len(proposals) |->
     [proposalId |-> proposals[i].proposalId,
      distr |-> countByVoteOf(Get(d, proposals[i].proposalId, <<>>),
                              Cardinality(vs))]]

\* lines 176-183
groupedDistr(d, vs) ==
  LET ids == sortedProposalIds(d)
  IN [i \in 1..Len(ids) |->
        [proposalId |-> ids[i],
         distr |-> countByVoteOf(Get(d, ids[i], <<>>), Cardinality(vs))]]

Header == <<"Proposal", "Votes", "Count">>

\* lines 187-189: the rows of one proposal
rowsOf(v) ==
  LET entries == sortByVotes(ObjectEntries(v.distr))
  IN [i \in 1..Len(entries) |->
        <<v.proposalId, entries[i][1], entries[i][2]>>]

RECURSIVE ConcatRows(_)
ConcatRows(groups) ==
  IF groups = <<>> THEN <<>>
  ELSE rowsOf(groups[1]) \o ConcatRows(Tail(groups))

\* lines 186-190
distributionByVoteCSV(d, vs) == <<Header>> \o ConcatRows(groupedDistr(d, vs))

\* ----------------------------------------------------------- state machine
Init ==
  /\ proposals \in Registries
  /\ txs = <<>>
  /\ distr = <<>>
  /\ voters = {}
  /\ warnings = <<>>
  /\ pc = "forEach"
  /\ csv = <<>>

\* forEach hands the next transaction of the input to the callback
forEachStep(tx) ==
  /\ pc = "forEach"
  /\ Len(txs) < MaxTxs
  /\ LET r == forEachBody([distr |-> distr, voters |-> voters,
                           warnings |-> warnings], tx, proposals)
     IN /\ distr' = r.distr
        /\ voters' = r.voters
        /\ warnings' = r.warnings
        /\ pc' = IF r.threw THEN "aborted" ELSE "forEach"
  /\ txs' = Append(txs, tx)
  /\ UNCHANGED <<proposals, csv>>

\* the CSV is also written when the callback threw
writeCsv_AfterAbort ==
  /\ pc \in {"forEach", "aborted"}
  /\ csv' = distributionByVoteCSV(distr, voters)
  /\ pc' = "done"
  /\ UNCHANGED <<proposals, txs, distr, voters, warnings>>

\* the input is exhausted: lines 176-192
writeCsv ==
  /\ pc = "forEach"
  /\ csv' = distributionByVoteCSV(distr, voters)
  /\ pc' = "done"
  /\ UNCHANGED <<proposals, txs, distr, voters, warnings>>

Next == (\E tx \in Txs : forEachStep(tx)) \/ writeCsv

Spec == Init /\ [][Next]_vars

\* ------------------------------------------------- vocabulary of the claims
\* ledger[P][v], 0 when absent
Entry(d, P, v) == Get(Get(d, P, <<>>), v, 0)

HasEntry(d, P, v) == Has(d, P) /\ Has(Get(d, P, <<>>), v)

\* every <<P, v>> that has an entry in d
EntriesOf(d) == {pv \in Keys(d) \X Voters : HasEntry(d, pv[1], pv[2])}

\* the whole number of votes a call carries
Magnitude(tx) == tx.msgParams[4] \div factor18

Irrelevant(tx) ==
  tx.type # SpendieType \/ tx.msgSig \notin {voteFuncSig, withdrawFuncSig}

\* the call is a vote or a withdrawal and its voter and box can be read
Addressed(tx) ==
  /\ ~Irrelevant(tx)
  /\ tx.signer \in Voters
  /\ (tx.msgSig = voteFuncSig =>
        \E i \in 1..Len(tx.outputs) :
          tx.outputs[i].color = BoxColor /\ tx.outputs[i].address # tx.signer)

BoxOf(tx) == getBoxAddress(tx, tx.signer)

\* the proposals of the registry that own the box
OwnersOf(box) ==
  {proposals[i].proposalId : i \in MatchingProposals(proposals, box)}

\* a Vote or Withdraw event that resolves to proposal P
ResolvesTo(tx, P) ==
  Addressed(tx) /\ Len(tx.msgParams) = 4 /\ P \in OwnersOf(BoxOf(tx))

Unresolved(tx) == Addressed(tx) /\ OwnersOf(BoxOf(tx)) = {}

Undecodable(tx) ==
  ~Irrelevant(tx) /\ (~Addressed(tx) \/ Len(tx.msgParams) # 4)

\* the transaction forEach consumed in this step
Stepped == Len(txs') = Len(txs) + 1
Last == txs'[Len(txs')]

RECURSIVE Replay(_, _)
\* lines 142-171: distr, voters and warnings after forEach over input, which
\* stops at the first callback that throws
Replay(input, props) ==
  IF input = <<>>
    THEN [distr |-> <<>>, voters |-> {}, warnings |-> <<>>, threw |-> FALSE]
    ELSE LET s == Replay(SubSeq(input, 1, Len(input) - 1), props)
         IN IF s.threw THEN s
            ELSE forEachBody(s, input[Len(input)], props)

\* the input without its last n transactions
Before(n) == SubSeq(txs, 1, Len(txs) - n)

\* ------------------------------------------------------------------ claims
\* the signers of the vote and withdraw calls of the input
SubmittedVoters ==
  {txs[i].signer : i \in {j \in 1..Len(txs) : ~Irrelevant(txs[j])}}

EmittedProposals == {csv[i][1] : i \in 2..Len(csv)}

RowsOfProposal(P) == {i \in 2..Len(csv) : csv[i][1] = P}

RECURSIVE SumCounts(_)
SumCounts(rows) ==
  IF rows = {} THEN 0
  ELSE LET i == CHOOSE x \in rows : TRUE
       IN csv[i][3] + SumCounts(rows \ {i})

\* C1: once the CSV is written, the counts of every proposal in it, the
\* zero bucket included, add up to the number of distinct voters that sent
\* a vote or withdraw call, whether or not the call resolved to a proposal.
C1_BucketSumIsVoterCount ==
  pc = "done" =>
    /\ Cardinality(voters) = Cardinality(SubmittedVoters)
    /\ \A P \in EmittedProposals :
         SumCounts(RowsOfProposal(P)) = Cardinality(SubmittedVoters)

\* a proposal is emitted while one of two voters only sent an unresolved call
C1_Witness ==
  /\ pc = "done"
  /\ Cardinality(voters) = 2
  /\ EmittedProposals # {}
  /\ \E v \in voters : \A P \in Keys(distr) : ~HasEntry(distr, P, v)
  /\ \E i \in 1..Len(txs) : Unresolved(txs[i])

\* C2: a withdrawal of m votes that resolves to P takes the voter's total
\* from prevVote to prevVote + m when prevVote is negative, and to
\* prevVote - m when prevVote is zero or positive.
C2_WithdrawSignInversion ==
  [][\A P \in Keys(distr') :
       (Stepped /\ isWithdraw(Last) /\ ResolvesTo(Last, P)) =>
         LET v == Last.signer
             m == Magnitude(Last)
             prevVote == Entry(distr, P, v)
         IN Entry(distr', P, v) =
              IF prevVote < 0 THEN prevVote + m ELSE prevVote - m]_vars

\* a voter at -m withdraws m and is back at 0
C2_Witness ==
  /\ pc = "forEach"
  /\ Len(txs) >= 2
  /\ LET w == txs[Len(txs)]
         P == getProposalId(w, proposals, w.signer)
         was == Replay(Before(1), proposals).distr
     IN /\ isWithdraw(w)
        /\ ResolvesTo(w, P)
        /\ Entry(was, P, w.signer) < 0
        /\ Entry(was, P, w.signer) = -Magnitude(w)
        /\ Entry(distr, P, w.signer) = 0

\* C3: a vote or withdraw call whose box belongs to no proposal of the
\* registry changes no ledger entry and creates none, adds its voter to the
\* voters, writes exactly one warning, and leaves forEach running.
C3_UnresolvedBoxOnlyRecordsVoter ==
  [][(Stepped /\ Unresolved(Last)) =>
       /\ distr' = distr
       /\ voters' = voters \cup {Last.signer}
       /\ warnings' = Append(warnings, BoxOf(Last))
       /\ pc' = "forEach"]_vars

\* a new voter's unresolved call follows a resolved one
C3_Witness ==
  /\ pc = "forEach"
  /\ Len(txs) = 2
  /\ Unresolved(txs[2])
  /\ \E P \in Keys(distr) : ResolvesTo(txs[1], P)
  /\ txs[2].signer # txs[1].signer
  /\ voters = {txs[1].signer, txs[2].signer}
  /\ warnings = <<BoxOf(txs[2])>>

\* C4: a call that cannot be decoded is skipped and never aborts the run.
C4_DecodeFailureNeverAborts ==
  (\E i \in 1..Len(txs) : Undecodable(txs[i])) => pc # "aborted"

\* two withdrawals of different sizes by one voter on one proposal, the
\* voter's total being 0 before them
TwoUnequalWithdrawals ==
  /\ pc = "forEach"
  /\ Len(txs) >= 2
  /\ LET a == txs[Len(txs) - 1]
         b == txs[Len(txs)]
     IN /\ isWithdraw(a) /\ isWithdraw(b)
        /\ a.signer = b.signer
        /\ Magnitude(a) >= 1 /\ Magnitude(b) >= 1
        /\ Magnitude(a) # Magnitude(b)
        /\ \E P \in Keys(distr) :
             /\ ResolvesTo(a, P) /\ ResolvesTo(b, P)
             /\ Entry(Replay(Before(2), proposals).distr, P, a.signer) = 0

\* the input with its last two transactions exchanged
LastTwoSwapped ==
  Before(2) \o <<txs[Len(txs)], txs[Len(txs) - 1]>>

\* C5: the order of the input matters: an input that ends with two
\* withdrawals of different sizes by a voter whose total was 0 gives another
\* ledger when the two withdrawals are replayed in the other order.
C5_OrderIsLoadBearing ==
  TwoUnequalWithdrawals =>
    Replay(LastTwoSwapped, proposals).distr # distr

\* withdrawals of 1 then 2 end at +1, of 2 then 1 at -1
C5_Witness ==
  /\ TwoUnequalWithdrawals
  /\ LET v == txs[Len(txs)].signer
         P == getProposalId(txs[Len(txs)], proposals, v)
     IN /\ Entry(distr, P, v) = Magnitude(txs[Len(txs)]) - Magnitude(txs[Len(txs) - 1])
        /\ Entry(Replay(LastTwoSwapped, proposals).distr, P, v)
             = -Entry(distr, P, v)

\* a vote of m and then a withdrawal of m on the same box, by a voter whose
\* total on the proposal P of the box was 0
VoteThenWithdraw(P) ==
  /\ Len(txs) >= 2
  /\ LET a == txs[Len(txs) - 1]
         b == txs[Len(txs)]
     IN /\ ~Irrelevant(a) /\ a.msgSig = voteFuncSig
        /\ ~Irrelevant(b) /\ b.msgSig = withdrawFuncSig
        /\ ResolvesTo(a, P) /\ ResolvesTo(b, P)
        /\ a.signer = b.signer
        /\ BoxOf(a) = BoxOf(b)
        /\ Magnitude(a) >= 1
        /\ Magnitude(a) = Magnitude(b)
        /\ Entry(Replay(Before(2), proposals).distr, P, a.signer) = 0

\* C6: a vote of m >= 1 followed by a withdrawal of m on the same box, by a
\* voter with no votes on the proposal, leaves the voter's total at 0.
C6_VoteWithdrawRoundTrip ==
  \A P \in Keys(distr) :
    VoteThenWithdraw(P) => Entry(distr, P, txs[Len(txs)].signer) = 0

\* the round trip of a voter without an entry, which leaves an entry of 0
C6_Witness ==
  /\ pc = "forEach"
  /\ \E P \in Keys(distr) :
       /\ VoteThenWithdraw(P)
       /\ ~HasEntry(Replay(Before(2), proposals).distr, P, txs[Len(txs)].signer)
       /\ HasEntry(distr, P, txs[Len(txs)].signer)
       /\ Entry(distr, P, txs[Len(txs)].signer) = 0

\* C7: a vote of m that resolves to P takes the voter's total from p to
\* p + m, whatever the sign of p.
C7_VoteAddsMagnitude ==
  [][\A P \in Keys(distr') :
       (Stepped /\ Last.msgSig = voteFuncSig /\ ResolvesTo(Last, P)) =>
         Entry(distr', P, Last.signer)
           = Entry(distr, P, Last.signer) + Magnitude(Last)]_vars

\* a vote on a negative total: a withdrawal of 2, then a vote of 1
C7_Witness ==
  /\ Len(txs) = 2
  /\ txs[1].msgSig = withdrawFuncSig
  /\ txs[2].msgSig = voteFuncSig
  /\ txs[1].signer = txs[2].signer
  /\ \E P \in Keys(distr) :
       /\ ResolvesTo(txs[1], P) /\ ResolvesTo(txs[2], P)
       /\ Entry(Replay(Before(1), proposals).distr, P, txs[2].signer) = -2
       /\ Magnitude(txs[2]) = 1
       /\ Entry(distr, P, txs[2].signer) = -1

\* C8: a transaction that is not a contract spend, or whose selector is
\* neither castBallot nor withdraw, changes neither the ledger, nor the
\* voters, nor the warnings.
C8_IrrelevantHasNoEffect ==
  [][(Stepped /\ Irrelevant(Last)) =>
       /\ distr' = distr
       /\ voters' = voters
       /\ warnings' = warnings
       /\ pc' = pc
       /\ csv' = csv]_vars

\* a transfer that carries the castBallot selector follows a resolved vote
\* of another signer
C8_Witness ==
  /\ pc = "forEach"
  /\ Len(txs) = 2
  /\ distr # <<>>
  /\ txs[2].type # SpendieType /\ txs[2].msgSig = voteFuncSig
  /\ voters = {txs[1].signer}
  /\ txs[2].signer \notin voters
  /\ warnings = <<>>

\* p comes before q in the lexicographic order of their code units
LexBefore(p, q) ==
  LET a == CodeUnits[p]
      b == CodeUnits[q]
  IN \E k \in 1..Len(b) :
       /\ k <= Len(a) + 1
       /\ \A j \in 1..(k - 1) : a[j] = b[j]
       /\ (k = Len(a) + 1 \/ a[k] < b[k])

\* the <<proposalId, voteValue>> buckets of the ledger: the net votes that
\* some voter holds on the proposal, and 0
Buckets ==
  {<<pv[1], Entry(distr, pv[1], pv[2])>> : pv \in EntriesOf(distr)}
    \cup {<<P, 0>> : P \in Keys(distr)}

\* C9: the CSV is the header followed by exactly one row per bucket; the rows
\* of a proposal are contiguous, the proposals come in lexicographic order
\* of their ids, and the rows of a proposal in strictly ascending order of
\* the vote value.
C9_RowsGroupedAndSorted ==
  pc = "done" =>
    /\ csv[1] = Header
    /\ {<<csv[i][1], csv[i][2]>> : i \in 2..Len(csv)} = Buckets
    /\ Len(csv) - 1 = Cardinality(Buckets)
    /\ \A i \in 2..(Len(csv) - 1) :
         \/ csv[i][1] = csv[i + 1][1] /\ csv[i][2] < csv[i + 1][2]
         \/ LexBefore(csv[i][1], csv[i + 1][1])

\* two proposals in the CSV, in the other order than they entered the
\* ledger, one with a positive row after its zero row and one with a
\* negative row before it
C9_Witness ==
  /\ pc = "done"
  /\ Len(distr) = 2
  /\ Len(csv) = 5
  /\ csv[2][1] = distr[2][1] /\ csv[3][1] = distr[2][1]
  /\ csv[4][1] = distr[1][1] /\ csv[5][1] = distr[1][1]
  /\ csv[2][2] = 0 /\ csv[3][2] > 0
  /\ csv[4][2] < 0 /\ csv[5][2] = 0

\* C10: an empty input gives a CSV of the header row only and no voters,
\* whatever the registry holds.
C10_EmptyInputHeaderOnly ==
  (pc = "done" /\ txs = <<>>) =>
    /\ csv = <<<<"Proposal", "Votes", "Count">>>>
    /\ voters = {}

\* the empty input summarised with two proposals in the registry
C10_Witness ==
  /\ pc = "done"
  /\ txs = <<>>
  /\ Len(proposals) = 2
  /\ Len(csv) = 1


Abs(n) == IF n < 0 THEN -n ELSE n

\* C11 as stated: a withdrawal of m >= 1 that resolves to P never leaves the
\* voter's total further from 0 than it was.
C11_WithdrawNeverGrowsMagnitude ==
  [][\A P \in Keys(distr') :
       (Stepped /\ isWithdraw(Last) /\ ResolvesTo(Last, P)
          /\ Magnitude(Last) >= 1) =>
         Abs(Entry(distr', P, Last.signer))
           <= Abs(Entry(distr, P, Last.signer))]_vars

\* C11 amended: a withdrawal of m >= 1 that resolves to P takes the distance
\* of the voter's total p from 0 to | |p| - m |; the distance does not grow
\* exactly when m <= 2 |p|, and it shrinks by m when m <= |p|.
C11_WithdrawMagnitude ==
  [][\A P \in Keys(distr') :
       (Stepped /\ isWithdraw(Last) /\ ResolvesTo(Last, P)
          /\ Magnitude(Last) >= 1) =>
         LET p == Entry(distr, P, Last.signer)
             n == Entry(distr', P, Last.signer)
             m == Magnitude(Last)
         IN /\ Abs(n) = Abs(Abs(p) - m)
            /\ ((Abs(n) <= Abs(p)) <=> (m <= 2 * Abs(p)))
            /\ ((m <= Abs(p)) => (Abs(n) = Abs(p) - m))]_vars

\* a voter at -2 withdraws 1 and is at -1
C11_Witness ==
  /\ pc = "forEach"
  /\ Len(txs) = 2
  /\ isWithdraw(txs[2])
  /\ Magnitude(txs[2]) = 1
  /\ \E P \in Keys(distr) :
       /\ ResolvesTo(txs[2], P)
       /\ Entry(Replay(Before(1), proposals).distr, P, txs[2].signer) = -2
       /\ Entry(distr, P, txs[2].signer) = -1


\* the positions in the input of the events of voter v that resolve to P
EventsOf(P, v) ==
  {i \in 1..Len(txs) : ResolvesTo(txs[i], P) /\ txs[i].signer = v}

\* voter v has sent votes of one vote or more to the given box of proposal
\* prop, and nothing else that resolves to the proposal
OnlyVotesOn(prop, v, box) ==
  /\ EventsOf(prop.proposalId, v) # {}
  /\ \A i \in EventsOf(prop.proposalId, v) :
       /\ txs[i].msgSig = voteFuncSig
       /\ Magnitude(txs[i]) >= 1
       /\ BoxOf(txs[i]) = box

\* C12: votes on the Yes box and votes on the No box of a proposal move the
\* voter's total in opposite directions: a voter who only votes on the Yes
\* box has a positive total, one who only votes on the No box a negative one.
C12_YesAndNoOppositeSigns ==
  \A k \in 1..Len(proposals) : \A v \in Voters :
    LET prop == proposals[k]
        net == Entry(distr, prop.proposalId, v)
    IN /\ OnlyVotesOn(prop, v, prop.yesBoxAddress) => net > 0
       /\ OnlyVotesOn(prop, v, prop.noBoxAddress) => net < 0


C14_ForwardSinglePass ==
  [][/\ pc = "forEach"
     /\ \/ txs' = txs
        \/ Stepped /\ SubSeq(txs', 1, Len(txs)) = txs
     /\ LET once == Replay(txs', proposals)
        IN /\ distr' = once.distr
           /\ voters' = once.voters
           /\ warnings' = once.warnings
           /\ ((pc' = "aborted") <=> once.threw)
           /\ (csv' # <<>> =>
                 /\ pc' = "done"
                 /\ txs' = txs
                 /\ csv' = distributionByVoteCSV(once.distr, once.voters))
     /\ (pc' = "aborted" => csv' = <<>>)]_vars

\* the second transaction threw after the first was aggregated: no CSV
C14_Witness ==
  /\ pc = "aborted"
  /\ Len(txs) = 2
  /\ \E P \in Keys(distr) : ResolvesTo(txs[1], P)
  /\ Undecodable(txs[2])
  /\ csv = <<>>


\* the rule of the specification: the decoder gives a positive magnitude, a
\* vote adds it, a withdrawal subtracts it unless the total is negative
SpecDelta(prevVote, tx) ==
  LET magnitude == Magnitude(tx)
  IN IF tx.msgSig = voteFuncSig THEN magnitude
     ELSE IF prevVote < 0 THEN magnitude ELSE -magnitude

RECURSIVE SpecNet(_, _, _)
\* the total of voter v on P after the events of input, by that rule
SpecNet(input, P, v) ==
  IF input = <<>> THEN 0
  ELSE LET prevVote == SpecNet(SubSeq(input, 1, Len(input) - 1), P, v)
           tx == input[Len(input)]
       IN IF ResolvesTo(tx, P) /\ tx.signer = v
            THEN prevVote + SpecDelta(prevVote, tx)
            ELSE prevVote

RegistryIds == {proposals[k].proposalId : k \in 1..Len(proposals)}

\* C15: negating the withdrawn amount in getVotes and negating it again in
\* the loop when the total is negative gives, for every input whose events
\* carry positive magnitudes, the totals of the rule of the specification,
\* and an entry for exactly the voters with an event on the proposal.
C15_CodeRuleIsSpecRule ==
  (\A i \in 1..Len(txs) : \A P \in RegistryIds :
     ResolvesTo(txs[i], P) => Magnitude(txs[i]) >= 1) =>
    \A P \in RegistryIds : \A v \in Voters :
      /\ Entry(distr, P, v) = SpecNet(txs, P, v)
      /\ (HasEntry(distr, P, v) <=> (EventsOf(P, v) # {}))

\* two withdrawals of one voter: the second one is negated twice
C15_Witness ==
  /\ Len(txs) = 2
  /\ txs[1].msgSig = withdrawFuncSig
  /\ txs[2].msgSig = withdrawFuncSig
  /\ \E P \in RegistryIds :
       LET v == txs[2].signer
       IN /\ EventsOf(P, v) = {1, 2}
          /\ SpecNet(Before(1), P, v) < 0
          /\ SpecNet(txs, P, v) = SpecNet(Before(1), P, v) + Magnitude(txs[2])
          /\ Entry(distr, P, v) = SpecNet(txs, P, v)


\* C16: every voter with an entry in the ledger is in voters, so what line
\* 181 adds to the zero bucket of a proposal, voters.size less the number of
\* its entries, is never negative, and no count of the CSV is negative.
C16_LedgerVotersAreRecorded ==
  /\ \A pv \in EntriesOf(distr) : pv[2] \in voters
  /\ \A P \in Keys(distr) :
       Cardinality(voters) - Len(Get(distr, P, <<>>)) >= 0
  /\ \A i \in 2..Len(csv) : csv[i][3] \in Nat

\* two voters with entries on different proposals: each zero bucket gets 1
C16_Witness ==
  /\ pc = "done"
  /\ Cardinality(voters) = 2
  /\ Len(distr) = 2
  /\ \A P \in Keys(distr) : Len(Get(distr, P, <<>>)) = 1
  /\ \A P \in Keys(distr) :
       \E i \in RowsOfProposal(P) : csv[i][2] = 0 /\ csv[i][3] = 1


\* C17: an event of voter v that resolves to P changes the entry of v on P
\* and no other: every other pair keeps its entry (or stays without one),
\* and voters gains v and loses nobody.
C17_EventTouchesOneEntry ==
  [][\A P \in RegistryIds :
       (Stepped /\ ResolvesTo(Last, P)) =>
         /\ \A Q \in RegistryIds : \A u \in Voters :
              (<<Q, u>> # <<P, Last.signer>>) =>
                /\ (HasEntry(distr', Q, u) <=> HasEntry(distr, Q, u))
                /\ Entry(distr', Q, u) = Entry(distr, Q, u)
         /\ HasEntry(distr', P, Last.signer)
         /\ voters' = voters \cup {Last.signer}
         /\ warnings' = warnings]_vars

\* a second voter's event on a proposal leaves the first voter's entry on it
C17_Witness ==
  /\ pc = "forEach"
  /\ Len(txs) = 2
  /\ txs[1].signer # txs[2].signer
  /\ \E P \in RegistryIds :
       /\ ResolvesTo(txs[1], P) /\ ResolvesTo(txs[2], P)
       /\ Entry(distr, P, txs[1].signer) # 0
       /\ Entry(distr, P, txs[1].signer)
            = Entry(Replay(Before(1), proposals).distr, P, txs[1].signer)
       /\ HasEntry(distr, P, txs[2].signer)
       /\ voters = {txs[1].signer, txs[2].signer}


\* the proposals that own the box of some vote or withdraw call of the input
ResolvedProposals ==
  {P \in RegistryIds :
     \E i \in 1..Len(txs) :
       Addressed(txs[i]) /\ P \in OwnersOf(BoxOf(txs[i]))}

\* C18: a proposal has rows in the CSV if and only if a vote or withdraw
\* call of the input resolved to one of its boxes; a proposal of the
\* registry without such a call has no row, not even a zero bucket.
C18_OnlyResolvedProposalsEmitted ==
  pc = "done" => EmittedProposals = ResolvedProposals

\* two voters, two proposals in the registry, rows for one of them only
C18_Witness ==
  /\ pc = "done"
  /\ Len(proposals) = 2
  /\ Cardinality(voters) = 2
  /\ Cardinality(EmittedProposals) = 1
  /\ \E P \in RegistryIds : RowsOfProposal(P) = {}


\* every ordering of the transactions of input
Orderings(input) ==
  {[i \in 1..Len(input) |-> input[f[i]]] : f \in Permutations(1..Len(input))}

\* d and e hold the same entries, whatever the order they were inserted in
SameLedger(d, e) ==
  /\ Keys(d) = Keys(e)
  /\ \A P \in RegistryIds : \A v \in Voters :
       /\ (HasEntry(d, P, v) <=> HasEntry(e, P, v))
       /\ Entry(d, P, v) = Entry(e, P, v)

NoWithdraw == \A i \in 1..Len(txs) : ~isWithdraw(txs[i])

\* C19: when the input holds no withdrawal, a pass over any ordering of it
\* ends the same way: it is stopped by an exception if and only if this one
\* was, and otherwise it leaves the same ledger, the same voters and the
\* same CSV.
C19_VotesCommute ==
  (pc \in {"done", "aborted"} /\ NoWithdraw) =>
    \A other \in Orderings(txs) :
      LET r == Replay(other, proposals)
      IN /\ (r.threw <=> (pc = "aborted"))
         /\ (pc = "done" =>
               /\ SameLedger(r.distr, distr)
               /\ r.voters = voters
               /\ distributionByVoteCSV(r.distr, r.voters) = csv)

\* votes of two voters on two proposals: the other order fills the ledger
\* in the other order and gives the same CSV
C19_Witness ==
  /\ pc = "done"
  /\ NoWithdraw
  /\ Len(txs) = 2
  /\ Len(distr) = 2
  /\ Cardinality(voters) = 2
  /\ LET r == Replay(<<txs[2], txs[1]>>, proposals)
     IN /\ r.distr # distr
        /\ SameLedger(r.distr, distr)
        /\ distributionByVoteCSV(r.distr, r.voters) = csv

====
